---- MODULE Spec2Model ----
(***************************************************************************)
(* Model of all_my_code: the colocation / gridding engine                  *)
(* (src/all_my_code/munging/collocation.py), the conform transforms with   *)
(* their history decorator (munging/conform.py, munging/__init__.py) and   *)
(* the checks of the seasonal-cycle fits (stats/seas_cycle.py).            *)
(*                                                                         *)
(* Numbers: grid centers and query coordinates are integers.  Every        *)
(* derived real number (mean spacing, bin edge, group mean) is kept as an  *)
(* exact fraction over an explicit denominator, so that "center inside     *)
(* its bin" and "value on an edge" are decided exactly.  NaN is an         *)
(* explicit flag; a fraction with denominator 0 is NaN (0/0 in numpy).     *)
(***************************************************************************)
EXTENDS Integers, Sequences, FiniteSets, TLC

VARIABLES
    \* ---- bin constructor calls (SpecBins)
    bx,        \* the centers handed to the bin constructor
    btime,     \* TRUE when the centers are datetime64 (integer nanoseconds)
    bcall,     \* "none", "make_bins" or "_make_bins_from_gridded_coord"
    bres,      \* the result of the call
    \* ---- colocate_dataarray calls (SpecColocate)
    da,        \* the target array: dims, centers, big, kind
    coords,    \* the query coordinates: keys, arr, kind
    cpc,       \* "call" before the call, "done" after it
    cres,      \* what the call did: trace, err, names, out
    \* ---- grid_flat_data calls (SpecGrid)
    gcoords,   \* the coordinate columns: keys, col
    gdata,     \* the data columns: a sequence of [name, vals]
    gpc,       \* "call" before the call, "done" after it
    gres,      \* what the call did: trace, err, out
    \* ---- grid_flat_dataframe_to_target calls (SpecTarget)
    ttarget,   \* the target grid: keys, centers, kind
    tflat,     \* the flat table: cols, kind, rows
    taggs,     \* the aggregators
    tpc,       \* "call" before the call, "done" after it
    tres,      \* what the call did: trace, err, out
    \* ---- apply_process_pipeline over decorated transforms (SpecPipeline)
    pin,       \* the dataset handed to the pipeline
    pfuncs,    \* the decorated transforms, in the order given
    pds,       \* the loop variable ds of apply_process_pipeline
    pidx,      \* the number of transforms that have run successfully
    pdays,     \* the day Timestamp.today() gave to each of them
    ppc,       \* "call", "run" or "done"
    pret,      \* "none", "raised" or "returned"
    \* ---- DataConform.__call__ (SpecCall)
    kmonthly,  \* whether the accessor's dataset has a monthly time axis
    kkeywords, \* the keyword arguments of the call, as the caller wrote them
    kfunclist, \* funclist
    kapplied,  \* the transforms that have run, in the order they ran
    kpc,       \* "call", "run" or "done"
    kret,      \* "none", "raised" or "returned"
    \* ---- operations on a monthly time axis (SpecSeas)
    stime,     \* the time axis: monthly, counts (time steps in each year)
    sop,       \* the operation called
    snyears,   \* n_years, the window length in years
    spc,       \* "call" before the call, "done" after it
    sres,      \* what the call did: err, stride, window
    \* ---- longitude flips applied one after another (SpecLon)
    lfs,       \* the transforms applied so far, in order
    ltrace,    \* the input dataset and the dataset after each transform
    \* ---- a decorated transform configured with keyword arguments
    \*      (SpecConfigure)
    fkwargs,   \* self.kwargs of the decorated lon_180W_180E
    fhandles,  \* the functions returned so far: what each was configured with
    frun       \* the last run of a returned function: handle, ds, out

bvars == <<bx, btime, bcall, bres>>
cvars == <<da, coords, cpc, cres>>
gvars == <<gcoords, gdata, gpc, gres>>
tvars == <<ttarget, tflat, taggs, tpc, tres>>
pvars == <<pin, pfuncs, pds, pidx, pdays, ppc, pret>>
vars == <<bx, btime, bcall, bres, da, coords, cpc, cres,
          gcoords, gdata, gpc, gres, ttarget, tflat, taggs, tpc, tres,
          pin, pfuncs, pds, pidx, pdays, ppc, pret,
          kmonthly, kkeywords, kfunclist, kapplied, kpc, kret,
          stime, sop, snyears, spc, sres, lfs, ltrace,
          fkwargs, fhandles, frun>>
fvars == <<fkwargs, fhandles, frun>>
lvars == <<lfs, ltrace>>
svars == <<stime, sop, snyears, spc, sres>>
kvars == <<kmonthly, kkeywords, kfunclist, kapplied, kpc, kret>>
\* the components of the conform and seasonal-cycle specifications
ovars == <<pvars, kvars, svars, lvars, fvars>>

(***************************************************************************)
(* Bounds of the bin-constructor specification.                            *)
(***************************************************************************)
MaxCenter == 5      \* centers are drawn from 0..MaxCenter
MaxCenters == 4     \* at most this many centers

\* strictly increasing sequences over lo..hi of length 1..n
RECURSIVE IncSeqs(_, _, _)
IncSeqs(lo, hi, n) ==
    IF n = 0 \/ lo > hi THEN {}
    ELSE UNION { {<<v>>} \cup { <<v>> \o s : s \in IncSeqs(v + 1, hi, n - 1) }
                 : v \in lo..hi }

(***************************************************************************)
(* numpy helpers                                                           *)
(***************************************************************************)
\* np.diff(x)
Diff(x) == [i \in 1..(Len(x) - 1) |-> x[i + 1] - x[i]]

RECURSIVE SeqSum(_)
SeqSum(s) == IF s = <<>> THEN 0 ELSE Head(s) + SeqSum(Tail(s))

\* np.nanmean(np.diff(x)) as the fraction n/d; the mean of no elements is
\* 0/0 = NaN (d = 0)
NanMeanDiff(x) == [n |-> SeqSum(Diff(x)), d |-> Len(x) - 1]

\* np.linspace(a, b, num) for a = an/den, b = bn/den and num >= 2:
\* a + i*(b - a)/(num - 1), i = 0..num-1, over the denominator den*(num-1)
Linspace(an, bn, den, num) ==
    [nan |-> FALSE,
     den |-> den * (num - 1),
     e   |-> [i \in 1..num |-> an * (num - 1) + (i - 1) * (bn - an)]]

\* np.linspace(nan, nan, num)
NanEdges(num) == [nan |-> TRUE, den |-> 1, e |-> [i \in 1..num |-> 0]]

\* ceil(a / b) for b > 0
CeilDiv(a, b) == -((-a) \div b)

\* np.arange(start, stop, step) over integers (datetime64[ns]), step > 0
Arange(start, stop, step) ==
    LET cnt == IF stop > start THEN CeilDiv(stop - start, step) ELSE 0
    IN  [nan |-> FALSE, den |-> 1,
         e |-> [i \in 1..cnt |-> start + (i - 1) * step]]

(***************************************************************************)
(* Bin constructors.  The result is [err, bins]: err is "" or the name of  *)
(* the exception raised; bins = [nan, den, e] are the edges e[i]/den.      *)
(***************************************************************************)
\* the numeric branch shared by both constructors, for a spacing dx = n/d
NumericBins(x, dx) ==
    LET N == Len(x)
    IN  IF dx.d = 0
        THEN NanEdges(N + 1)
        ELSE Linspace(2 * dx.d * x[1] - dx.n, 2 * dx.d * x[N] + dx.n,
                      2 * dx.d, N + 1)

\* the datetime branch shared by both constructors
DatetimeBins(x) ==
    LET N  == Len(x)
        m  == NanMeanDiff(x)
        dx == IF m.d = 0 THEN 0 ELSE m.n \div m.d
    IN  IF m.d = 0
        THEN [err |-> "ValueError", bins |-> NanEdges(0)]   \* arange over NaT
        ELSE [err |-> "", bins |-> Arange(x[1] - (dx \div 2), x[N] + dx, dx)]

\* assert (len(x) + 1) == len(bins)
CheckLen(x, r) ==
    IF r.err = "" /\ Len(r.bins.e) # Len(x) + 1
    THEN [err |-> "AssertionError", bins |-> r.bins]
    ELSE r

\* colocate_dataarray.make_bins
MakeBins(x, istime) ==
    IF istime
    THEN CheckLen(x, DatetimeBins(x))
    ELSE CheckLen(x, [err |-> "", bins |-> NumericBins(x, NanMeanDiff(x))])

\* grid.estimate_grid_spacing: the mean inter-center spacing
EstimateGridSpacing(x) == NanMeanDiff(x)

\* _make_bins_from_gridded_coord
MakeBinsFromGriddedCoord(x, istime) ==
    IF istime
    THEN CheckLen(x, DatetimeBins(x))
    ELSE CheckLen(x, [err |-> "", bins |-> NumericBins(x, EstimateGridSpacing(x))])


(***************************************************************************)
(* colocate_dataarray                                                      *)
(*                                                                         *)
(* A target is [dims, centers, big, kind]: dims the dimension names in     *)
(* order, centers[k] the strictly increasing centers of an explicit axis,  *)
(* big[k] the length of an axis that is only known by its length (a long   *)
(* lazily backed time axis), kind[k] the numpy dtype kind of the axis.     *)
(* The value of the cell at 1-based index (i) is i, at (i, j) is 10*i + j, *)
(* so that every cell of a target holds a different value; index 0 on an   *)
(* axis stands for the whole slice along that axis.                        *)
(***************************************************************************)
GridMax == 3        \* explicit centers are drawn from 0..GridMax
MaxAxisLen == 3     \* an explicit axis has at most this many centers
MaxRows == 2        \* a query has at most this many rows

\* the cell-count ceiling of the restricted target
MaxCells == 720 * 1440 * 365 * 2

Range(s) == {s[i] : i \in 1..Len(s)}
InSeq(v, s) == \E i \in 1..Len(s) : s[i] = v

NaN == [nan |-> TRUE, v |-> 0]
Num(v) == [nan |-> FALSE, v |-> v]

NoTarget == [dims |-> <<>>, centers |-> <<>>, big |-> <<>>, kind |-> <<>>]
NoQuery == [keys |-> <<>>, arr |-> <<>>, kind |-> <<>>]
NoResult == [trace |-> <<>>, err |-> "", names |-> <<>>, shape |-> <<>>, out |-> <<>>]

IsBig(t, k) == k \in DOMAIN t.big
\* da[k].size
DimLen(t, k) == IF IsBig(t, k) THEN t.big[k] ELSE Len(t.centers[k])
\* da.shape
Shape(t) == [p \in 1..Len(t.dims) |-> DimLen(t, t.dims[p])]

\* da.values[ix] for ix a 1-based index on every dimension
CellValue(t, ix) ==
    IF Len(t.dims) = 1 THEN ix[t.dims[1]]
    ELSE 10 * ix[t.dims[1]] + ix[t.dims[2]]

RECURSIVE SeqProd(_)
SeqProd(s) == IF s = <<>> THEN 1 ELSE Head(s) * SeqProd(Tail(s))

RECURSIVE SeqMin(_)
SeqMin(s) == IF Len(s) = 1 THEN s[1]
             ELSE LET m == SeqMin(Tail(s)) IN IF s[1] < m THEN s[1] ELSE m
RECURSIVE SeqMax(_)
SeqMax(s) == IF Len(s) = 1 THEN s[1]
             ELSE LET m == SeqMax(Tail(s)) IN IF s[1] > m THEN s[1] ELSE m

NotMatchedFirstOnly(t, q) ==
    LET all == SelectSeq(q.keys, LAMBDA k : ~InSeq(k, t.dims))
    IN  IF all = <<>> THEN <<>> ELSE <<all[1]>>
\* not_matched = [k for k in keys if k not in dims]
NotMatched(t, q) == SelectSeq(q.keys, LAMBDA k : ~InSeq(k, t.dims))
\* coord_lengths = set([coords[k].size for k in keys])
CoordLengths(q) == {Len(q.arr[k]) : k \in Range(q.keys)}
\* type_missmatch = [k for k in keys if coords[k].dtype.kind != da[k].dtype.kind]
TypeMissmatch(t, q) == SelectSeq(q.keys, LAMBDA k : q.kind[k] # t.kind[k])

ValidateNoKindCheck(t, q) ==
    IF Cardinality(CoordLengths(q)) # 1
    THEN [err |-> "AssertionError: same length", names |-> <<>>]
    ELSE IF ~(Len(q.keys) > 0)
    THEN [err |-> "AssertionError: at least one coordinate", names |-> <<>>]
    ELSE IF Len(NotMatched(t, q)) # 0
    THEN [err |-> "AssertionError: not in da", names |-> NotMatched(t, q)]
    ELSE [err |-> "", names |-> <<>>]
\* the assertions of lines 150-160, in their order: "" when all pass
Validate(t, q) ==
    IF Cardinality(CoordLengths(q)) # 1
    THEN [err |-> "AssertionError: same length", names |-> <<>>]
    ELSE IF ~(Len(q.keys) > 0)
    THEN [err |-> "AssertionError: at least one coordinate", names |-> <<>>]
    ELSE IF Len(NotMatched(t, q)) # 0
    THEN [err |-> "AssertionError: not in da", names |-> NotMatched(t, q)]
    ELSE IF Len(TypeMissmatch(t, q)) # 0
    THEN [err |-> "AssertionError: not the same type", names |-> TypeMissmatch(t, q)]
    ELSE [err |-> "", names |-> <<>>]

\* da.sel(k=slice(lo, hi)) on one sorted axis: the centers within [lo, hi],
\* as [first, n]: n centers starting at 1-based index first
SelAxis(c, lo, hi) ==
    LET inside == {i \in 1..Len(c) : lo <= c[i] /\ c[i] <= hi}
    IN  IF inside = {} THEN [first |-> 1, n |-> 0]
        ELSE [first |-> CHOOSE i \in inside : \A j \in inside : i <= j,
              n |-> Cardinality(inside)]

\* xdr = da.sel(**ranges), ranges = {k: slice(nanmin, nanmax) for k in keys}
Sel(t, q) ==
    [k \in Range(t.dims) |->
        IF InSeq(k, q.keys)
        THEN SelAxis(t.centers[k], SeqMin(q.arr[k]), SeqMax(q.arr[k]))
        ELSE [first |-> 1, n |-> DimLen(t, k)]]

\* xdr.size
XdrSize(t, xdr) == SeqProd([p \in 1..Len(t.dims) |-> xdr[t.dims[p]].n])

\* xdr[k]: the centers of the restricted axis
XdrCenters(t, xdr, k) ==
    SubSeq(t.centers[k], xdr[k].first, xdr[k].first + xdr[k].n - 1)

\* pd.cut(x, bins, labels=arange(n)) for one value: the 0-based label of the
\* interval (e[i], e[i+1]] holding x, -1 (null) when there is none.
\* ids = bins.searchsorted(x, side="left"); null when ids is 0 or len(bins)
Cut(x, b) ==
    IF b.nan THEN -1
    ELSE LET ids == Cardinality({i \in 1..Len(b.e) : b.e[i] < x * b.den})
         IN  IF ids = 0 \/ ids = Len(b.e) THEN -1 ELSE ids - 1

\* lines 179-211, after xdr.load().  strict: this pandas refuses edges that
\* are not monotonic (NaN edges) instead of putting every value in no bin.
Fetch(t, q, xdr, strict) ==
    LET L == Len(q.arr[q.keys[1]])
        explicit == SelectSeq(t.dims, LAMBDA k : ~IsBig(t, k))
        bins == [k \in Range(explicit) |->
                    MakeBins(XdrCenters(t, xdr, k), t.kind[k] = "M")]
        failed == SelectSeq(explicit, LAMBDA k : bins[k].err # "")
        nanbins == SelectSeq(q.keys, LAMBDA k : bins[k].bins.nan)
        code == [k \in Range(q.keys) |->
                    [r \in 1..L |-> Cut(q.arr[k][r], bins[k].bins)]]
        null == [r \in 1..L |-> \E k \in Range(q.keys) : code[k][r] = -1]
        \* binned.fillna(0), then the position in the full target
        at(k, r) == xdr[k].first + (IF code[k][r] = -1 THEN 0 ELSE code[k][r])
        ix(r) == [k \in Range(t.dims) |-> IF InSeq(k, q.keys) THEN at(k, r) ELSE 0]
        unq == SelectSeq(t.dims, LAMBDA k : ~InSeq(k, q.keys))
    IN  IF failed # <<>>
        THEN [err |-> bins[failed[1]].err, steps |-> <<"bins">>,
              shape |-> <<>>, out |-> <<>>]
        ELSE IF strict /\ nanbins # <<>>
        THEN [err |-> "ValueError: bins must increase monotonically",
              steps |-> <<"bins", "cut">>, shape |-> <<>>, out |-> <<>>]
        ELSE IF unq = <<>>
        THEN \* one value per row
             [err |-> "", steps |-> <<"bins", "cut", "getitem">>, shape |-> <<L>>,
              out |-> [r \in 1..L |->
                          IF null[r] THEN NaN ELSE Num(CellValue(t, ix(r)))]]
        ELSE IF unq[1] = t.dims[1]
        THEN \* values[:, idx].T has shape (L, n): one slice per row
             [err |-> "", steps |-> <<"bins", "cut", "getitem">>,
              shape |-> <<L, xdr[unq[1]].n>>,
              out |-> [r \in 1..L |->
                          IF null[r] THEN NaN ELSE Num(CellValue(t, ix(r)))]]
        ELSE \* values[idx, :].T has shape (n, L): the mask of L rows is
             \* applied to the axis of length n
             LET n == xdr[unq[1]].n
             IN  IF n # L
                 THEN [err |-> "IndexError: boolean index did not match",
                       steps |-> <<"bins", "cut", "getitem">>,
                       shape |-> <<>>, out |-> <<>>]
                 ELSE [err |-> "", steps |-> <<"bins", "cut", "getitem">>,
                       shape |-> <<n, L>>,
                       out |-> [j \in 1..n |-> [r \in 1..L |->
                                  IF null[j] THEN NaN
                                  ELSE Num(CellValue(t,
                                         [ix(r) EXCEPT ![unq[1]] = j]))]]]

\* TRUE when the call reaches pd.cut with NaN edges for a queried axis
NanEdgesCut(t, q) ==
    /\ Validate(t, q).err = ""
    /\ \A k \in Range(q.keys) : Len(q.arr[k]) > 0
    /\ XdrSize(t, Sel(t, q)) > 0
    /\ \E k \in Range(q.keys) : Sel(t, q)[k].n = 1

\* xdr.size > (720 * 1440 * 365 * 2)
TooLargeGe(size) == size >= MaxCells
TooLarge(size) == size > MaxCells

\* np.ones(list(coord_lengths)[0]) * np.NaN
NansPerKey(q) == [r \in 1..Len(q.keys) |-> NaN]
NansPerRow(q) ==
    LET L == CHOOSE n \in CoordLengths(q) : TRUE IN [r \in 1..L |-> NaN]

\* colocate_dataarray(da, **coords): the steps taken (trace) and the result
Colocate(t, q, strict) ==
    LET v == Validate(t, q)
        L == CHOOSE n \in CoordLengths(q) : TRUE
        xdr == Sel(t, q)
        size == XdrSize(t, xdr)
        f == Fetch(t, q, xdr, strict)
    IN  IF v.err # ""
        THEN [trace |-> <<"validate">>, err |-> v.err, names |-> v.names,
              shape |-> <<>>, out |-> <<>>]
        ELSE IF L = 0
        THEN \* np.nanmin of an empty array
             [trace |-> <<"validate", "ranges">>,
              err |-> "ValueError: zero-size array", names |-> <<>>,
              shape |-> <<>>, out |-> <<>>]
        ELSE IF TooLarge(size)
        THEN [trace |-> <<"validate", "ranges", "sel">>,
              err |-> "ValueError: too large to load", names |-> Shape(t),
              shape |-> <<>>, out |-> <<>>]
        ELSE IF size = 0
        THEN [trace |-> <<"validate", "ranges", "sel">>,
              err |-> "", names |-> <<>>,
              shape |-> <<L>>, out |-> NansPerRow(q)]
        ELSE [trace |-> <<"validate", "ranges", "sel", "load">> \o f.steps,
              err |-> f.err, names |-> <<>>, shape |-> f.shape, out |-> f.out]

(***************************************************************************)
(* grid_flat_data                                                          *)
(*                                                                         *)
(* Coordinate columns are keyword arguments (name -> values); data columns *)
(* are named columns [name, vals].  A data column is a pandas Series with  *)
(* the default index 0..len-1 (series = TRUE) or another named array       *)
(* (series = FALSE).  A mean is the fraction n/d, NaN when d = 0.          *)
(***************************************************************************)
MaxFlat == 3        \* a flat column has at most this many rows

NoColumns == [keys |-> <<>>, col |-> <<>>]
NoGrid == [trace |-> <<>>, err |-> "", out |-> {}]

SetMax(S) == CHOOSE m \in S : \A n \in S : n <= m

\* pd.DataFrame.from_dict(coordinate_cols): [err, n, names, cell], cell[i][c]
\* the value of column c in row i (index label i - 1).  Raw arrays must
\* agree in length; Series are aligned on the union of their indexes, which
\* the raw arrays must match in length; a Series shorter than the index is
\* padded with NaN.
FromDict(cc, dc, series) ==
    LET N == CHOOSE n \in {Len(cc.col[k]) : k \in Range(cc.keys)} : TRUE
        dlens == {Len(dc[j].vals) : j \in 1..Len(dc)}
        index == IF series /\ dc # <<>> THEN SetMax(dlens) ELSE N
        bad == IF series THEN dc # <<>> /\ index # N
               ELSE \E n \in dlens : n # N
        names == cc.keys \o [j \in 1..Len(dc) |-> dc[j].name]
    IN  IF bad
        THEN [err |-> "ValueError: array length does not match",
              n |-> 0, names |-> <<>>, cell |-> <<>>]
        ELSE [err |-> "", n |-> index, names |-> names,
              cell |-> [i \in 1..index |->
                  [c \in Range(names) |->
                      IF InSeq(c, cc.keys) THEN Num(cc.col[c][i])
                      ELSE LET j == CHOOSE j \in 1..Len(dc) : dc[j].name = c
                           IN  IF i <= Len(dc[j].vals)
                               THEN Num(dc[j].vals[i]) ELSE NaN]]]

\* df.groupby(by=coordinate_cols): by is a dict, so the group of a row is
\* by.get(label) for the row's index label; a row whose label is no key of
\* the dict has the group None and belongs to no group.  The keys of the
\* dict are the column names, the labels are 0..n-1.
GroupOfRow(df, i) ==
    IF ToString(i - 1) \in Range(df.names)
    THEN [none |-> FALSE, key |-> ToString(i - 1)]
    ELSE [none |-> TRUE, key |-> ""]

\* grouped.mean(): per group, the mean of every column over the rows of the
\* group that are not NaN
GroupMean(df, rows, c) ==
    LET present == {i \in rows : ~df.cell[i][c].nan}
        RECURSIVE Sum(_)
        Sum(S) == IF S = {} THEN 0
                  ELSE LET i == CHOOSE i \in S : TRUE
                       IN  df.cell[i][c].v + Sum(S \ {i})
    IN  [n |-> Sum(present), d |-> Cardinality(present)]

GroupedMean(df) ==
    LET grouped == {i \in 1..df.n : ~GroupOfRow(df, i).none}
        keys == {GroupOfRow(df, i).key : i \in grouped}
    IN  { [key |-> g,
           mean |-> [c \in Range(df.names) |->
                        GroupMean(df, {i \in grouped : GroupOfRow(df, i).key = g}, c)]]
          : g \in keys }

\* grid_flat_data(*data_columns, **coordinate_columns)
GridFlatData(dc, cc, series) ==
    LET sizes == {Len(cc.col[k]) : k \in Range(cc.keys)}
        df == FromDict(cc, dc, series)
    IN  IF Cardinality(sizes) # 1
        THEN [trace |-> <<"assert">>, err |-> "AssertionError: same length",
              out |-> {}]
        ELSE IF df.err # ""
        THEN [trace |-> <<"assert", "from_dict">>, err |-> df.err, out |-> {}]
        ELSE [trace |-> <<"assert", "from_dict", "groupby", "mean">>,
              err |-> "", out |-> GroupedMean(df)]

(***************************************************************************)
(* grid_flat_dataframe_to_target                                           *)
(*                                                                         *)
(* The target is [keys, centers, kind]: the names of its coordinates in    *)
(* order, their centers and their dtype kinds.  The flat table is          *)
(* [cols, kind, rows]: rows[i][c] the value of column c in row i.  A cell  *)
(* of the result is named by the 1-based positions of its centers.  An     *)
(* aggregate is the fraction n/d (count: n/1), NaN when flagged; the       *)
(* standard deviation is kept as its square, the sample variance.          *)
(***************************************************************************)
NoGridTarget == [keys |-> <<>>, centers |-> <<>>, kind |-> <<>>]
NoTable == [cols |-> <<>>, kind |-> <<>>, rows |-> <<>>]
NoAggregated == [trace |-> <<>>, err |-> "", out |-> {}]

Frac(n, d) == [nan |-> FALSE, n |-> n, d |-> d]
NaNFrac == [nan |-> TRUE, n |-> 0, d |-> 1]

RECURSIVE SumCol(_, _, _)
SumCol(df, S, c) == IF S = {} THEN 0
                    ELSE LET i == CHOOSE i \in S : TRUE
                         IN  df.rows[i][c] + SumCol(df, S \ {i}, c)
RECURSIVE SumSq(_, _, _)
SumSq(df, S, c) == IF S = {} THEN 0
                   ELSE LET i == CHOOSE i \in S : TRUE
                        IN  df.rows[i][c] * df.rows[i][c] + SumSq(df, S \ {i}, c)

\* one aggregate of column c over the rows S of a group
Aggregate(df, S, c, agg) ==
    LET n == Cardinality(S)
    IN  IF agg = "count" THEN Frac(n, 1)
        ELSE IF agg = "mean"
        THEN (IF n = 0 THEN NaNFrac ELSE Frac(SumCol(df, S, c), n))
        ELSE \* "std": sum((x - mean)^2) / (n - 1)
             (IF n < 2 THEN NaNFrac
              ELSE Frac(n * SumSq(df, S, c) - SumCol(df, S, c) * SumCol(df, S, c),
                        n * (n - 1)))

\* "_".join(col)
FieldName(c, agg) == c \o "_" \o agg

\* lines 251-264.  observed: this pandas groups by the observed categories
\* only (the default from pandas 3), otherwise by every combination of
\* categories.  strict: this pandas refuses NaN edges.
Aggregated(df, t, aggs, observed, strict) ==
    LET bins == [k \in Range(t.keys) |->
                    MakeBinsFromGriddedCoord(t.centers[k], t.kind[k] = "M")]
        failed == SelectSeq(t.keys, LAMBDA k : bins[k].err # "")
        nanbins == SelectSeq(t.keys, LAMBDA k : bins[k].bins.nan)
        n == Len(df.rows)
        \* cuts: the position of the label of each row on each axis, 0: none
        code == [k \in Range(t.keys) |->
                    [i \in 1..n |-> Cut(df.rows[i][k], bins[k].bins) + 1]]
        datacols == SelectSeq(df.cols, LAMBDA c : ~InSeq(c, t.keys))
        \* groupby drops the rows with a null key
        grouped == {i \in 1..n : \A k \in Range(t.keys) : code[k][i] # 0}
        cellof(i) == [k \in Range(t.keys) |-> code[k][i]]
        cells == IF observed THEN {cellof(i) : i \in grouped}
                 ELSE {c \in [Range(t.keys) -> 1..MaxAxisLen] :
                          \A k \in Range(t.keys) : c[k] <= Len(t.centers[k])}
        fields == {<<datacols[j], aggs[a]>> : j \in 1..Len(datacols), a \in 1..Len(aggs)}
        row(cell) ==
            LET S == {i \in grouped : cellof(i) = cell}
            IN  [cell |-> cell,
                 field |-> [f \in {FieldName(p[1], p[2]) : p \in fields} |->
                    LET p == CHOOSE p \in fields : FieldName(p[1], p[2]) = f
                    IN  Aggregate(df, S, p[1], p[2])]]
        \* .dropna(how="all")
        kept == {r \in {row(cell) : cell \in cells} :
                    \E f \in DOMAIN r.field : ~r.field[f].nan}
    IN  IF failed # <<>>
        THEN [trace |-> <<"assert", "bins">>, err |-> bins[failed[1]].err, out |-> {}]
        ELSE IF strict /\ nanbins # <<>>
        THEN [trace |-> <<"assert", "bins", "cut">>,
              err |-> "ValueError: bins must increase monotonically", out |-> {}]
        ELSE [trace |-> <<"assert", "bins", "cut", "groupby", "aggregate", "dropna">>,
              err |-> "", out |-> kept]

\* the assertions of lines 243-249, for the keys in their order
TargetChecks(df, t) ==
    LET bad == SelectSeq(t.keys,
                   LAMBDA k : ~InSeq(k, df.cols) \/ df.kind[k] # t.kind[k])
    IN  IF bad = <<>> THEN ""
        ELSE IF ~InSeq(bad[1], df.cols) THEN "AssertionError: not a column"
        ELSE "AssertionError: not the same type"

\* grid_flat_dataframe_to_target(flat_df, target, aggregators)
GridFlatDataframeToTarget(df, t, aggs, observed, strict) ==
    IF TargetChecks(df, t) # ""
    THEN [trace |-> <<"assert">>, err |-> TargetChecks(df, t), out |-> {}]
    ELSE Aggregated(df, t, aggs, observed, strict)


(***************************************************************************)
(* The conform transforms and their decorator                              *)
(* (src/all_my_code/munging/conform.py).                                   *)
(*                                                                         *)
(* A dataset is a record: cname/cval are the name and the values of its    *)
(* horizontal coordinate, vals the data along that dimension, tmon says    *)
(* whether the time axis has one step per calendar month, tday is the day  *)
(* of the month of the time stamps, hist is the history attribute.         *)
(* Text is a sequence of one-character strings.                            *)
(***************************************************************************)
MaxHist == 3        \* the input's history has at most this many characters
MaxFuncs == 2       \* a pipeline has at most this many transforms

NoDataset == [cname |-> "", cval |-> <<>>, vals |-> <<>>,
              tmon |-> FALSE, tday |-> 0, hist |-> <<>>]

\* str.split(";")
RECURSIVE Split(_)
Split(h) ==
    IF h = <<>> THEN << <<>> >>
    ELSE IF Head(h) = ";" THEN << <<>> >> \o Split(Tail(h))
    ELSE LET r == Split(Tail(h))
         IN  << <<Head(h)>> \o Head(r) >> \o Tail(r)

\* str.strip()
RECURSIVE LStrip(_)
LStrip(s) == IF s # <<>> /\ Head(s) = " " THEN LStrip(Tail(s)) ELSE s
RECURSIVE RStrip(_)
RStrip(s) == IF s # <<>> /\ s[Len(s)] = " "
             THEN RStrip(SubSeq(s, 1, Len(s) - 1)) ELSE s
Strip(s) == RStrip(LStrip(s))

\* "; ".join(parts)
RECURSIVE Join(_)
Join(parts) ==
    IF parts = <<>> THEN <<>>
    ELSE IF Len(parts) = 1 THEN parts[1]
    ELSE parts[1] \o <<";", " ">> \o Join(Tail(parts))

\* self.msg: the first line of the transform's docstring
Msg(f) ==
    CASE f = "lon_180W_180E" -> <<"W">>
      [] f = "lon_0E_360E" -> <<"E">>
      [] f = "time_center_monthly" -> <<"T">>

\* prefix = f"[amc{version}@{now}] "
Prefix(now) == <<"[", now, "]", " ">>

\* add_docs_line1_to_attribute_history._add_history, ignoring what the
\* history already holds
AddHistoryOverwrite(ds, f, now) ==
    [ds EXCEPT !.hist = Prefix(now) \o Msg(f)]

\* add_docs_line1_to_attribute_history._add_history
AddHistory(ds, f, now) ==
    LET msg == Prefix(now) \o Msg(f)
        hist == ds.hist
        parts == [i \in 1..Len(Split(hist)) |-> Strip(Split(hist)[i])]
    IN  [ds EXCEPT !.hist = IF hist # <<>>
                            THEN Join(parts \o <<msg>>)
                            ELSE msg]

\* the positions of keys in ascending order of key, ties in their first
\* order (sortby is a stable sort)
RECURSIVE SortOrder(_, _)
SortOrder(keys, left) ==
    IF left = {} THEN <<>>
    ELSE LET i == CHOOSE i \in left : \A j \in left :
                     keys[i] < keys[j] \/ (keys[i] = keys[j] /\ i <= j)
         IN  <<i>> \o SortOrder(keys, left \ {i})

\* ds.assign_coords(**{lon_name: lon}).sortby(lon_name)
AssignSorted(ds, lon) ==
    LET o == SortOrder(lon, 1..Len(lon))
    IN  [ds EXCEPT !.cval = [i \in 1..Len(lon) |-> lon[o[i]]],
                   !.vals = [i \in 1..Len(lon) |-> ds.vals[o[i]]]]

\* set(list(ds.coords) + list(ds.dims))
Names(ds) == {ds.cname, "time"}

\* lon_180W_180E without the shift by 180 before the modulo
Lon180W180ENoShift(ds, lon_name) ==
    IF lon_name \notin Names(ds) THEN [err |-> "", ds |-> ds]
    ELSE [err |-> "",
          ds |-> AssignSorted(ds, [i \in 1..Len(ds.cval) |->
                                      (ds.cval[i] % 360) - 180])]

\* lon_180W_180E(ds, lon_name)
Lon180W180E(ds, lon_name) ==
    IF lon_name \notin Names(ds) THEN [err |-> "", ds |-> ds]
    ELSE [err |-> "",
          ds |-> AssignSorted(ds, [i \in 1..Len(ds.cval) |->
                                      ((ds.cval[i] - 180) % 360) - 180])]

\* lon_0E_360E failing on a name the dataset does not have
Lon0E360EStrict(ds, lon_name) ==
    IF lon_name \notin Names(ds) THEN [err |-> "KeyError", ds |-> ds]
    ELSE [err |-> "",
          ds |-> AssignSorted(ds, [i \in 1..Len(ds.cval) |->
                                      ds.cval[i] % 360])]

\* lon_0E_360E(ds, lon_name)
Lon0E360E(ds, lon_name) ==
    IF lon_name \notin Names(ds) THEN [err |-> "", ds |-> ds]
    ELSE [err |-> "",
          ds |-> AssignSorted(ds, [i \in 1..Len(ds.cval) |->
                                      ds.cval[i] % 360])]

\* date_utils.datetime64ns_to_lower_order_datetime: the coarsest unit that
\* holds every time stamp exactly
LowerOrderUnit(ds) == IF ds.tmon /\ ds.tday = 1 THEN "M" ELSE "D"

\* time_center_monthly(ds, center_day)
TimeCenterMonthly(ds, center_day) ==
    IF LowerOrderUnit(ds) # "M"
    THEN [err |-> "ValueError: data time variable is not monthly", ds |-> ds]
    ELSE [err |-> "", ds |-> [ds EXCEPT !.tday = center_day]]

\* self.func(ds) with the default keyword arguments
Func(f, ds) ==
    CASE f = "lon_180W_180E" -> Lon180W180E(ds, "lon")
      [] f = "lon_0E_360E" -> Lon0E360E(ds, "lon")
      [] f = "time_center_monthly" -> TimeCenterMonthly(ds, 15)

\* __call__ with the unreachable "return args[0]" in place of "raise e"
DecoratedSwallow(f, ds, now) ==
    LET r == Func(f, ds)
    IN  IF r.err # "" THEN [err |-> "", ds |-> ds]
        ELSE [err |-> "", ds |-> AddHistory(r.ds, f, now)]

\* add_docs_line1_to_attribute_history.__call__ with one positional
\* argument: the exception of the transform is raised again
Decorated(f, ds, now) ==
    LET r == Func(f, ds)
    IN  IF r.err # "" THEN r
        ELSE [err |-> "", ds |-> AddHistory(r.ds, f, now)]

(***************************************************************************)
(* DataConform.__call__ (src/all_my_code/munging/__init__.py): the named   *)
(* flags select the transforms that are handed to apply_process_pipeline.  *)
(***************************************************************************)
MaxKeywords == 2    \* the caller writes at most this many keyword arguments

\* the flags of __call__, in the order of its signature
FlagNames == <<"correct_coord_names", "time_center_monthly", "drop_0d_coords",
               "transpose_dims", "lon_180W_180E", "rename_vars_snake_case">>
\* the default of each flag
FlagDefault(f) ==
    f \in {"correct_coord_names", "drop_0d_coords", "transpose_dims",
           "lon_180W_180E"}
\* the value a flag has in the call
FlagValue(f, keywords) ==
    IF \E i \in 1..Len(keywords) : keywords[i].name = f
    THEN LET i == CHOOSE i \in 1..Len(keywords) : keywords[i].name = f
         IN  keywords[i].value
    ELSE FlagDefault(f)

\* the tests of __call__, in the order of the code
CodeOrder == <<"correct_coord_names", "time_center_monthly", "drop_0d_coords",
               "transpose_dims", "lon_180W_180E", "rename_vars_snake_case">>
\* the same tests with transpose_dims and lon_180W_180E exchanged
SwappedOrder == <<"correct_coord_names", "time_center_monthly", "drop_0d_coords",
                  "lon_180W_180E", "transpose_dims", "rename_vars_snake_case">>

RECURSIVE Selected(_, _)
Selected(order, keywords) ==
    IF order = <<>> THEN <<>>
    ELSE (IF FlagValue(Head(order), keywords) THEN <<Head(order)>> ELSE <<>>)
         \o Selected(Tail(order), keywords)

\* funclist built with two of the tests exchanged
FuncListSwapped(keywords) == Selected(SwappedOrder, keywords)

\* funclist as __call__ builds it
FuncList(keywords) == Selected(CodeOrder, keywords)

\* whether a transform raises on the accessor's dataset
Raises(f, monthly) == f = "time_center_monthly" /\ ~monthly

(***************************************************************************)
(* The seasonal-cycle fits (src/all_my_code/stats/seas_cycle.py).          *)
(*                                                                         *)
(* A time axis is described by the number of time steps it has in each     *)
(* of its years (what np.unique(years, return_counts=True) returns) and    *)
(* by whether its steps are one per calendar month.                        *)
(***************************************************************************)
MaxYears == 2       \* the time axis spans at most this many years
MaxSteps == 13      \* a year has at most this many time steps
MaxNYears == 4      \* n_years is at most this

NoTime == [monthly |-> FALSE, counts |-> <<>>]
NoFit == [err |-> "", stride |-> 0, window |-> 0]

\* _get_number_of_time_steps_in_year(time)
GetNumberOfTimeStepsInYear(time) ==
    LET counts == time.counts
        all_the_same == \A i \in 1..Len(counts) : counts[i] = counts[1]
    IN  IF ~all_the_same
        THEN [err |-> "ValueError: time array is not evenly spaced", n |-> 0]
        ELSE [err |-> "", n |-> counts[1]]

\* da.rolling(time=window, min_periods=stride).construct(...) and what
\* follows it; with strict the library refuses a window that is longer than
\* the time axis, without it the window is padded
Rolling(time, window, stride, strict) ==
    IF strict /\ window > SeqSum(time.counts)
    THEN [NoFit EXCEPT !.err = "ValueError: window longer than the axis"]
    ELSE [err |-> "", stride |-> stride, window |-> window]

\* seascycl_fit_graven(da, n_years)
SeascyclFitGraven(time, n_years, strict) ==
    LET stride == GetNumberOfTimeStepsInYear(time)
    IN  IF stride.err # "" THEN [NoFit EXCEPT !.err = stride.err]
        ELSE IF stride.n # 12
        THEN [NoFit EXCEPT !.err = "AssertionError: this function only works for monthly data"]
        ELSE IF n_years % 2 = 0
        THEN [NoFit EXCEPT !.err = "AssertionError: n_years must be an odd number"]
        ELSE Rolling(time, n_years * stride.n, stride.n, strict)

\* seascycl_fit_climatology(da, n_years)
SeascyclFitClimatology(time, n_years, strict) ==
    LET stride == GetNumberOfTimeStepsInYear(time)
    IN  IF stride.err # "" THEN [NoFit EXCEPT !.err = stride.err]
        ELSE IF stride.n # 12
        THEN [NoFit EXCEPT !.err = "AssertionError: this function only works for monthly data"]
        ELSE Rolling(time, n_years * stride.n, stride.n, strict)

\* a dataset on the time axis, its stamps on the first of the month
DatasetOn(time) ==
    [cname |-> "lon", cval |-> <<0>>, vals |-> <<1>>,
     tmon |-> time.monthly, tday |-> 1, hist |-> <<>>]

(***************************************************************************)
(* A decorated transform called with keyword arguments only: __call__      *)
(* stores them in self.kwargs and returns the bound method __caller__.     *)
(***************************************************************************)
MaxHandles == 3     \* at most this many functions are obtained

NoKwargs == [set |-> FALSE, lon_name |-> ""]
NoRun == [handle |-> 0, ds |-> NoDataset, out |-> NoDataset]

\* the value of lon_name under the keyword arguments kw ("" when the
\* caller gave none: the default of the signature)
LonNameOf(kw) == IF kw.lon_name = "" THEN "lon" ELSE kw.lon_name

\* __caller__(ds): self._add_history(self.func(ds, **self.kwargs))
Caller(kwargs, ds, now) ==
    AddHistory(Lon180W180E(ds, LonNameOf(kwargs)).ds, "lon_180W_180E", now)

(***************************************************************************)
(* SpecBins: one call of either bin constructor on bounded centers.        *)
(***************************************************************************)
NoBins == [err |-> "none", bins |-> NanEdges(0)]

IdleBins ==
    /\ bx = <<0>>
    /\ btime = FALSE
    /\ bcall = "idle"
    /\ bres = NoBins

IdleColocate ==
    /\ da = NoTarget
    /\ coords = NoQuery
    /\ cpc = "idle"
    /\ cres = NoResult

IdleGrid ==
    /\ gcoords = NoColumns
    /\ gdata = <<>>
    /\ gpc = "idle"
    /\ gres = NoGrid

IdleTarget ==
    /\ ttarget = NoGridTarget
    /\ tflat = NoTable
    /\ taggs = <<>>
    /\ tpc = "idle"
    /\ tres = NoAggregated

IdlePipeline ==
    /\ pin = NoDataset
    /\ pfuncs = <<>>
    /\ pds = NoDataset
    /\ pidx = 0
    /\ pdays = <<>>
    /\ ppc = "idle"
    /\ pret = "none"

IdleCall ==
    /\ kmonthly = FALSE
    /\ kkeywords = <<>>
    /\ kfunclist = <<>>
    /\ kapplied = <<>>
    /\ kpc = "idle"
    /\ kret = "none"

IdleSeas ==
    /\ stime = NoTime
    /\ sop = "none"
    /\ snyears = 0
    /\ spc = "idle"
    /\ sres = NoFit

IdleLon ==
    /\ lfs = <<>>
    /\ ltrace = <<>>

IdleConfigure ==
    /\ fkwargs = NoKwargs
    /\ fhandles = <<>>
    /\ frun = NoRun

IdleOthers ==
    IdlePipeline /\ IdleCall /\ IdleSeas /\ IdleLon /\ IdleConfigure

InitBins ==
    /\ bx \in IncSeqs(0, MaxCenter, MaxCenters)
    /\ btime \in BOOLEAN
    /\ bcall = "none"
    /\ bres = NoBins
    /\ IdleColocate
    /\ IdleGrid
    /\ IdleTarget
    /\ IdleOthers

CallMakeBins ==
    /\ bcall = "none"
    /\ bcall' = "make_bins"
    /\ bres' = MakeBins(bx, btime)
    /\ UNCHANGED <<bx, btime>>
    /\ UNCHANGED <<cvars, gvars, tvars, ovars>>

CallMakeBinsFromGriddedCoord ==
    /\ bcall = "none"
    /\ bcall' = "_make_bins_from_gridded_coord"
    /\ bres' = MakeBinsFromGriddedCoord(bx, btime)
    /\ UNCHANGED <<bx, btime>>
    /\ UNCHANGED <<cvars, gvars, tvars, ovars>>

NextBins == CallMakeBins \/ CallMakeBinsFromGriddedCoord

SpecBins == InitBins /\ [][NextBins]_vars

(***************************************************************************)
(* SpecColocate: one call of colocate_dataarray on a bounded target and    *)
(* bounded query coordinates.                                              *)
(***************************************************************************)
LatAxes == IncSeqs(0, GridMax, MaxAxisLen)
LonCenters == <<0, 2>>
LonQuery == {0, 2, 5}
\* the length of a lazily backed time axis: two latitudes of it fill the
\* ceiling exactly, three exceed it
BigLen == MaxCells \div 2
Kinds == {"f", "i", "M"}

Targets ==
    { [dims |-> <<"lat">>, centers |-> [lat |-> a], big |-> <<>>,
       kind |-> [lat |-> "f"]] : a \in LatAxes }
    \cup
    { [dims |-> <<"lat", "lon">>, centers |-> [lat |-> a, lon |-> LonCenters],
       big |-> <<>>, kind |-> [lat |-> "f", lon |-> "f"]]
      : a \in {x \in LatAxes : Len(x) = MaxAxisLen} }
    \cup
    { [dims |-> <<"time", "lat">>, centers |-> [lat |-> a],
       big |-> [time |-> BigLen], kind |-> [time |-> "M", lat |-> "f"]]
      : a \in LatAxes }

QNames == {"lat", "lon", "depth"}
KeySeqs == {<<>>} \cup {<<a>> : a \in QNames}
           \cup {s \in {<<a, b>> : a \in QNames, b \in QNames} : s[1] # s[2]}

\* the values a query array may hold for key k among the keys ks: the
\* values vary only when every key names a dimension (otherwise the call
\* fails before it reads a value)
QVals(t, k, ks) ==
    IF \E j \in 1..Len(ks) : ~InSeq(ks[j], t.dims) THEN {0}
    ELSE IF k = "lat" THEN (-1)..(GridMax + 1)
    ELSE LonQuery

\* the arrays of L rows for the keys ks
Arrs(t, ks, L) ==
    IF Len(ks) = 0 THEN {<<>>}
    ELSE IF Len(ks) = 1
    THEN {(ks[1] :> a) : a \in [1..L -> QVals(t, ks[1], ks)]}
    ELSE {(ks[1] :> a) @@ (ks[2] :> b) :
            a \in [1..L -> QVals(t, ks[1], ks)], b \in [1..L -> QVals(t, ks[2], ks)]}

\* keys in the order of QOrder
QOrder == <<"lat", "lon", "depth">>
OrderedKeySeqs ==
    {s \in KeySeqs : \A i, j \in 1..Len(s) :
        i < j => \E m, n \in 1..Len(QOrder) : m < n /\ QOrder[m] = s[i] /\ QOrder[n] = s[j]}

InitColocate ==
    /\ da \in Targets
    /\ coords = NoQuery
    /\ cpc = "call"
    /\ cres = NoResult
    /\ IdleBins
    /\ IdleGrid
    /\ IdleTarget
    /\ IdleOthers

\* colocate_dataarray(da, **coords)
Call(q) ==
    /\ coords' = q
    /\ \/ cres' = Colocate(da, q, FALSE)
       \/ /\ NanEdgesCut(da, q)
          /\ cres' = Colocate(da, q, TRUE)
    /\ cpc' = "done"
    /\ UNCHANGED da
    /\ UNCHANGED <<bvars, gvars, tvars, ovars>>

\* a call with arrays of equal lengths and float values
CallColocate ==
    /\ cpc = "call"
    /\ \E ks \in OrderedKeySeqs, L \in 0..MaxRows :
         \E a \in Arrs(da, ks, L) :
            Call([keys |-> ks, arr |-> a, kind |-> [k \in Range(ks) |-> "f"]])

\* a call with one array a row short, or arrays of another dtype kind (the
\* values play no part in the validation)
CallColocateMalformed ==
    /\ cpc = "call"
    /\ \E ks \in KeySeqs \ {<<>>}, L \in 1..MaxRows :
         \E short \in Range(ks) \cup {"none"}, kd \in [Range(ks) -> Kinds] :
            Call([keys |-> ks,
                  arr |-> [k \in Range(ks) |->
                             [i \in 1..(IF k = short THEN L - 1 ELSE L) |-> 0]],
                  kind |-> kd])

NextColocate == CallColocate \/ CallColocateMalformed

SpecColocate == InitColocate /\ [][NextColocate]_vars

(***************************************************************************)
(* SpecGrid: one call of grid_flat_data on bounded columns.                *)
(***************************************************************************)
CoordValues == {0, 1}
DataValues == {1, 3}
Columns(vals) == UNION {[1..n -> vals] : n \in 0..MaxFlat}

CoordColumnSets ==
    {NoColumns}
    \cup {[keys |-> <<"lat">>, col |-> [lat |-> a]] : a \in Columns(CoordValues)}
    \cup {[keys |-> <<"lat", "lon">>, col |-> [lat |-> a, lon |-> b]]
            : a \in Columns(CoordValues), b \in Columns(CoordValues)}

DataColumnSets ==
    {<<>>}
    \cup {<<[name |-> "x", vals |-> a]>> : a \in Columns(DataValues)}
    \cup {<<[name |-> "x", vals |-> a], [name |-> "y", vals |-> b]>>
            : a \in Columns(DataValues), b \in Columns(DataValues)}

InitGrid ==
    /\ gcoords \in CoordColumnSets
    /\ gdata = <<>>
    /\ gpc = "call"
    /\ gres = NoGrid
    /\ IdleBins
    /\ IdleColocate
    /\ IdleTarget
    /\ IdleOthers

\* grid_flat_data(*dc, **gcoords)
CallGridFlatData ==
    /\ gpc = "call"
    /\ \E dc \in DataColumnSets, series \in BOOLEAN :
         /\ gdata' = dc
         /\ gres' = GridFlatData(dc, gcoords, series)
    /\ gpc' = "done"
    /\ UNCHANGED gcoords
    /\ UNCHANGED <<bvars, cvars, tvars, ovars>>

NextGrid == CallGridFlatData

SpecGrid == InitGrid /\ [][NextGrid]_vars

(***************************************************************************)
(* SpecTarget: one call of grid_flat_dataframe_to_target on a bounded      *)
(* target grid and a bounded flat table with one data column x.            *)
(***************************************************************************)
GridTargets ==
    { [keys |-> <<"lat">>, centers |-> [lat |-> a], kind |-> [lat |-> "f"]]
      : a \in LatAxes }
    \cup
    { [keys |-> <<"lat", "lon">>, centers |-> [lat |-> a, lon |-> LonCenters],
       kind |-> [lat |-> "f", lon |-> "f"]]
      : a \in {x \in LatAxes : Len(x) = MaxAxisLen} }

AggregatorLists == {<<"mean", "std", "count">>, <<"mean">>, <<"mean", "count">>}

\* the rows of a table with the target's coordinate columns and column x
TableRows(t) ==
    IF Len(t.keys) = 1
    THEN {[lat |-> a, x |-> v] : a \in (-1)..(GridMax + 1), v \in DataValues}
    ELSE {[lat |-> a, lon |-> b, x |-> v]
            : a \in (-1)..(GridMax + 1), b \in LonQuery, v \in DataValues}

InitTarget ==
    /\ ttarget \in GridTargets
    /\ tflat = NoTable
    /\ taggs = <<>>
    /\ tpc = "call"
    /\ tres = NoAggregated
    /\ IdleBins
    /\ IdleColocate
    /\ IdleGrid
    /\ IdleOthers

CallTarget(df, aggs) ==
    /\ tflat' = df
    /\ taggs' = aggs
    /\ \E observed \in BOOLEAN, strict \in BOOLEAN :
         tres' = GridFlatDataframeToTarget(df, ttarget, aggs, observed, strict)
    /\ tpc' = "done"
    /\ UNCHANGED ttarget
    /\ UNCHANGED <<bvars, cvars, gvars, ovars>>

\* a table that has every coordinate of the target as a column of its kind
CallGridToTarget ==
    /\ tpc = "call"
    /\ \E n \in 0..MaxRows, aggs \in AggregatorLists :
         \E rows \in [1..n -> TableRows(ttarget)] :
            CallTarget([cols |-> ttarget.keys \o <<"x">>,
                        kind |-> [c \in Range(ttarget.keys) \cup {"x"} |-> "f"],
                        rows |-> rows], aggs)

\* a table that lacks a coordinate column, or has one of another kind
CallGridToTargetMalformed ==
    /\ tpc = "call"
    /\ \E missing \in BOOLEAN, k \in Range(ttarget.keys) :
         CallTarget(
            IF missing
            THEN [cols |-> SelectSeq(ttarget.keys, LAMBDA c : c # k) \o <<"x">>,
                  kind |-> [c \in (Range(ttarget.keys) \ {k}) \cup {"x"} |-> "f"],
                  rows |-> <<>>]
            ELSE [cols |-> ttarget.keys \o <<"x">>,
                  kind |-> [c \in Range(ttarget.keys) \cup {"x"} |->
                              IF c = k THEN "i" ELSE "f"],
                  rows |-> <<>>],
            <<"mean", "std", "count">>)

NextTarget == CallGridToTarget \/ CallGridToTargetMalformed

SpecTarget == InitTarget /\ [][NextTarget]_vars

(***************************************************************************)
(* SpecPipeline: apply_process_pipeline(ds, *funcs) over decorated         *)
(* transforms, one iteration of its loop per step.                         *)
(***************************************************************************)
HistChars == {"a", "b", " ", ";"}
Histories ==
    UNION {[1..n -> HistChars] : n \in 0..MaxHist}
PipelineLons == {<<0, 190>>, <<350, -10>>}
Days == {"1", "2"}
Transforms == {"lon_180W_180E", "lon_0E_360E", "time_center_monthly"}
Pipelines == UNION {[1..n -> Transforms] : n \in 0..MaxFuncs}
Datasets ==
    {[cname |-> c, cval |-> l, vals |-> [i \in 1..Len(l) |-> i],
      tmon |-> m, tday |-> 1, hist |-> h] :
        c \in {"lon", "longitude"}, l \in PipelineLons,
        m \in BOOLEAN, h \in Histories}

InitPipeline ==
    /\ pin \in Datasets
    /\ pfuncs = <<>>
    /\ pds = NoDataset
    /\ pidx = 0
    /\ pdays = <<>>
    /\ ppc = "call"
    /\ pret = "none"
    /\ IdleBins
    /\ IdleColocate
    /\ IdleGrid
    /\ IdleTarget
    /\ IdleCall
    /\ IdleSeas
    /\ IdleLon
    /\ IdleConfigure

\* apply_process_pipeline(ds, *funcs) is entered
CallPipeline ==
    /\ ppc = "call"
    /\ \E funcs \in Pipelines : pfuncs' = funcs
    /\ pds' = pin
    /\ ppc' = "run"
    /\ UNCHANGED <<pin, pidx, pdays, pret>>
    /\ UNCHANGED <<bvars, cvars, gvars, tvars, kvars, svars, lvars, fvars>>

\* one iteration of the loop: ds = func(ds)
ApplyTransform ==
    /\ ppc = "run"
    /\ pidx < Len(pfuncs)
    /\ \E now \in Days :
        /\ \A i \in 1..Len(pdays) : pdays[i] = "2" => now = "2"
        /\ LET r == Decorated(pfuncs[pidx + 1], pds, now)
           IN  IF r.err # ""
               THEN /\ ppc' = "done"
                    /\ pret' = "raised"
                    /\ UNCHANGED <<pds, pidx, pdays>>
               ELSE /\ pds' = r.ds
                    /\ pidx' = pidx + 1
                    /\ pdays' = Append(pdays, now)
                    /\ UNCHANGED <<ppc, pret>>
    /\ UNCHANGED <<pin, pfuncs>>
    /\ UNCHANGED <<bvars, cvars, gvars, tvars, kvars, svars, lvars, fvars>>

\* return ds
ReturnPipeline ==
    /\ ppc = "run"
    /\ pidx = Len(pfuncs)
    /\ ppc' = "done"
    /\ pret' = "returned"
    /\ UNCHANGED <<pin, pfuncs, pds, pidx, pdays>>
    /\ UNCHANGED <<bvars, cvars, gvars, tvars, kvars, svars, lvars, fvars>>

NextPipeline == CallPipeline \/ ApplyTransform \/ ReturnPipeline

SpecPipeline == InitPipeline /\ [][NextPipeline]_vars

(***************************************************************************)
(* SpecCall: one call of the accessor, ds.conform(flag=value, ...).       *)
(***************************************************************************)
FlagSet == {FlagNames[i] : i \in 1..Len(FlagNames)}
Keywords ==
    {k \in UNION {[1..n -> [name : FlagSet, value : BOOLEAN]] :
                    n \in 0..MaxKeywords} :
        \A i, j \in 1..Len(k) : i # j => k[i].name # k[j].name}

InitCall ==
    /\ kmonthly \in BOOLEAN
    /\ kkeywords = <<>>
    /\ kfunclist = <<>>
    /\ kapplied = <<>>
    /\ kpc = "call"
    /\ kret = "none"
    /\ IdleBins
    /\ IdleColocate
    /\ IdleGrid
    /\ IdleTarget
    /\ IdlePipeline
    /\ IdleSeas
    /\ IdleLon
    /\ IdleConfigure

\* __call__ up to the call of apply_process_pipeline
CallConform ==
    /\ kpc = "call"
    /\ \E k \in Keywords :
        /\ kkeywords' = k
        /\ kfunclist' = FuncList(k)
    /\ kpc' = "run"
    /\ UNCHANGED <<kmonthly, kapplied, kret>>
    /\ UNCHANGED <<bvars, cvars, gvars, tvars, pvars, svars, lvars, fvars>>

\* one iteration of apply_process_pipeline
RunTransform ==
    /\ kpc = "run"
    /\ Len(kapplied) < Len(kfunclist)
    /\ LET f == kfunclist[Len(kapplied) + 1]
       IN  IF Raises(f, kmonthly)
           THEN /\ kpc' = "done"
                /\ kret' = "raised"
                /\ UNCHANGED kapplied
           ELSE /\ kapplied' = Append(kapplied, f)
                /\ UNCHANGED <<kpc, kret>>
    /\ UNCHANGED <<kmonthly, kkeywords, kfunclist>>
    /\ UNCHANGED <<bvars, cvars, gvars, tvars, pvars, svars, lvars, fvars>>

\* return out
ReturnConform ==
    /\ kpc = "run"
    /\ Len(kapplied) = Len(kfunclist)
    /\ kpc' = "done"
    /\ kret' = "returned"
    /\ UNCHANGED <<kmonthly, kkeywords, kfunclist, kapplied>>
    /\ UNCHANGED <<bvars, cvars, gvars, tvars, pvars, svars, lvars, fvars>>

NextCall == CallConform \/ RunTransform \/ ReturnConform

SpecCall == InitCall /\ [][NextCall]_vars

(***************************************************************************)
(* SpecSeas: one call of an operation that needs a monthly time axis.      *)
(***************************************************************************)
\* a monthly axis has at most 12 steps in its first and last year and 12
\* in every year between; any other axis can have any number in any year
TimeAxes ==
    {t \in [monthly : BOOLEAN,
            counts : UNION {[1..n -> 1..MaxSteps] : n \in 1..MaxYears}] :
        t.monthly => \A i \in 1..Len(t.counts) :
                        /\ t.counts[i] <= 12
                        /\ (1 < i /\ i < Len(t.counts)) => t.counts[i] = 12}

InitSeas ==
    /\ stime \in TimeAxes
    /\ sop = "none"
    /\ snyears = 0
    /\ spc = "call"
    /\ sres = NoFit
    /\ IdleBins
    /\ IdleColocate
    /\ IdleGrid
    /\ IdleTarget
    /\ IdlePipeline
    /\ IdleCall
    /\ IdleLon
    /\ IdleConfigure

\* time_center_monthly(ds)
CallTimeCenterMonthly ==
    /\ spc = "call"
    /\ sop' = "time_center_monthly"
    /\ \E now \in Days :
          sres' = [NoFit EXCEPT
                      !.err = Decorated("time_center_monthly",
                                        DatasetOn(stime), now).err]
    /\ spc' = "done"
    /\ UNCHANGED <<stime, snyears>>
    /\ UNCHANGED <<bvars, cvars, gvars, tvars, pvars, kvars, lvars, fvars>>

\* seascycl_fit_graven(da, n_years)
CallSeascyclFitGraven ==
    /\ spc = "call"
    /\ sop' = "seascycl_fit_graven"
    /\ \E n \in 1..MaxNYears, strict \in BOOLEAN :
        /\ snyears' = n
        /\ sres' = SeascyclFitGraven(stime, n, strict)
    /\ spc' = "done"
    /\ UNCHANGED stime
    /\ UNCHANGED <<bvars, cvars, gvars, tvars, pvars, kvars, lvars, fvars>>

\* seascycl_fit_climatology(da, n_years)
CallSeascyclFitClimatology ==
    /\ spc = "call"
    /\ sop' = "seascycl_fit_climatology"
    /\ \E n \in 1..MaxNYears, strict \in BOOLEAN :
        /\ snyears' = n
        /\ sres' = SeascyclFitClimatology(stime, n, strict)
    /\ spc' = "done"
    /\ UNCHANGED stime
    /\ UNCHANGED <<bvars, cvars, gvars, tvars, pvars, kvars, lvars, fvars>>

NextSeas ==
    CallTimeCenterMonthly \/ CallSeascyclFitGraven \/ CallSeascyclFitClimatology

SpecSeas == InitSeas /\ [][NextSeas]_vars

(***************************************************************************)
(* SpecLon: the two longitude transforms applied one after another to a    *)
(* dataset with integer-degree longitudes.                                 *)
(***************************************************************************)
MaxLon == 2         \* a longitude axis has at most this many values
MaxFlips == 2       \* at most this many transforms are applied in a row

LonValues == {-360, -181, -180, -1, 0, 1, 179, 180, 181, 359, 360, 540}
LonDatasets ==
    {[cname |-> "lon", cval |-> l, vals |-> [i \in 1..Len(l) |-> i],
      tmon |-> TRUE, tday |-> 1, hist |-> <<>>] :
        l \in UNION {[1..n -> LonValues] : n \in 0..MaxLon}}

InitLon ==
    /\ lfs = <<>>
    /\ \E ds \in LonDatasets : ltrace = <<ds>>
    /\ IdleBins
    /\ IdleColocate
    /\ IdleGrid
    /\ IdleTarget
    /\ IdlePipeline
    /\ IdleCall
    /\ IdleSeas
    /\ IdleConfigure

ApplyLon(f) ==
    /\ ltrace # <<>>
    /\ Len(lfs) < MaxFlips
    /\ \E now \in Days :
        /\ "2" \in Range(ltrace[Len(ltrace)].hist) => now = "2"
        /\ ltrace' = Append(ltrace, Decorated(f, ltrace[Len(ltrace)], now).ds)
    /\ lfs' = Append(lfs, f)
    /\ UNCHANGED <<bvars, cvars, gvars, tvars, pvars, kvars, svars, fvars>>

\* ds = lon_180W_180E(ds)
ApplyLon180W180E == ApplyLon("lon_180W_180E")

\* ds = lon_0E_360E(ds)
ApplyLon0E360E == ApplyLon("lon_0E_360E")

NextLon == ApplyLon180W180E \/ ApplyLon0E360E

SpecLon == InitLon /\ [][NextLon]_vars

(***************************************************************************)
(* SpecConfigure: lon_180W_180E(lon_name=...) is called several times and  *)
(* the functions it returned are run, in any interleaving.                 *)
(***************************************************************************)
KwargsChoices == {[set |-> TRUE, lon_name |-> n] : n \in {"", "lon", "longitude"}}
ConfigureDatasets ==
    {[cname |-> c, cval |-> <<0, 190>>, vals |-> <<1, 2>>,
      tmon |-> TRUE, tday |-> 1, hist |-> <<>>] : c \in {"lon", "longitude"}}

InitConfigure ==
    /\ fkwargs = NoKwargs
    /\ fhandles = <<>>
    /\ frun = NoRun
    /\ IdleBins
    /\ IdleColocate
    /\ IdleGrid
    /\ IdleTarget
    /\ IdlePipeline
    /\ IdleCall
    /\ IdleSeas
    /\ IdleLon

\* f = lon_180W_180E(**kw): no positional argument
Configure ==
    /\ Len(fhandles) < MaxHandles
    /\ \E kw \in KwargsChoices :
        /\ fkwargs' = kw
        /\ fhandles' = Append(fhandles, kw)
    /\ UNCHANGED frun
    /\ UNCHANGED <<bvars, cvars, gvars, tvars, pvars, kvars, svars, lvars>>

\* out = f(ds) for one of the functions obtained
RunConfigured ==
    /\ \E h \in 1..Len(fhandles), ds \in ConfigureDatasets, now \in Days :
          frun' = [handle |-> h, ds |-> ds, out |-> Caller(fkwargs, ds, now)]
    /\ UNCHANGED <<fkwargs, fhandles>>
    /\ UNCHANGED <<bvars, cvars, gvars, tvars, pvars, kvars, svars, lvars>>

NextConfigure == Configure \/ RunConfigured

SpecConfigure == InitConfigure /\ [][NextConfigure]_vars

(***************************************************************************)
(* Properties of the bin constructors (SpecBins)                           *)
(***************************************************************************)
BinsCalled == bcall \in {"make_bins", "_make_bins_from_gridded_coord"}

\* center i lies strictly inside (e[i], e[i+1])
CenterInside(x, b, i) ==
    /\ ~b.nan
    /\ b.e[i] < b.den * x[i]
    /\ b.den * x[i] < b.e[i + 1]

\* C1: for every strictly increasing sequence of N numeric centers, either
\* bin constructor returns exactly N+1 edges and every center lies strictly
\* inside its own interval, edge[i] < center[i] < edge[i+1].
C1_CentersStrictlyInside ==
    (BinsCalled /\ ~btime) =>
        /\ bres.err = ""
        /\ Len(bres.bins.e) = Len(bx) + 1
        /\ \A i \in 1..Len(bx) : CenterInside(bx, bres.bins, i)

(***************************************************************************)
(* Properties of colocate_dataarray (SpecColocate)                         *)
(***************************************************************************)
Returned == cpc = "done"
Rows == CHOOSE n \in CoordLengths(coords) : TRUE
InTrace(step) == InSeq(step, cres.trace)

\* the four ways a query is malformed
UnequalLengths == Cardinality({Len(coords.arr[k]) : k \in DOMAIN coords.arr}) > 1
NoCoordinate == coords.keys = <<>>
UnknownNames == {k \in Range(coords.keys) : k \notin Range(da.dims)}
KindDiffers ==
    \E k \in Range(coords.keys) \cap Range(da.dims) : coords.kind[k] # da.kind[k]
Malformed == UnequalLengths \/ NoCoordinate \/ UnknownNames # {} \/ KindDiffers

\* a query that passes the validation and has at least one row
Valid == Returned /\ ~Malformed /\ Rows > 0
AllQueried == Range(coords.keys) = Range(da.dims)

\* the 1-based position of value v among the centers of axis k, 0 if none
CenterIndex(k, v) ==
    IF \E i \in 1..Len(da.centers[k]) : da.centers[k][i] = v
    THEN CHOOSE i \in 1..Len(da.centers[k]) : da.centers[k][i] = v
    ELSE 0
OnCenters ==
    \A k \in Range(coords.keys) : \A r \in 1..Rows :
        CenterIndex(k, coords.arr[k][r]) # 0

\* C2: round trip: for a target whose axes are all queried and a non-empty
\* list of query points that all equal grid centers, the call returns, for
\* each row, the target's value at that grid center.
C2_RoundTripIdentity ==
    (Valid /\ AllQueried /\ OnCenters) =>
        /\ cres.err = ""
        /\ Len(cres.out) = Rows
        /\ \A r \in 1..Rows :
             cres.out[r] = Num(CellValue(da,
                 [k \in Range(da.dims) |-> CenterIndex(k, coords.arr[k][r])]))

\* the bins of the whole axis k, and the position of value v in them
\* (-1: in no bin of the axis); a single center covers only itself
FullBins(k) == MakeBins(da.centers[k], FALSE).bins
FullCut(k, v) ==
    IF FullBins(k).nan
    THEN (IF v = da.centers[k][1] THEN 0 ELSE -1)
    ELSE Cut(v, FullBins(k))
RowOutside(r) == \E k \in Range(coords.keys) : FullCut(k, coords.arr[k][r]) = -1

\* C3: when validation passes, a row with a coordinate outside the range
\* covered by the target's grid gets NaN, the call does not raise, and the
\* other rows of the call still get their values.
C3_OutsideRowsAreNaN ==
    (Valid /\ AllQueried /\ \E r \in 1..Rows : RowOutside(r)) =>
        /\ cres.err = ""
        /\ Len(cres.out) = Rows
        /\ \A r \in 1..Rows :
             IF RowOutside(r)
             THEN cres.out[r] = NaN
             ELSE cres.out[r] = Num(CellValue(da,
                     [k \in Range(da.dims) |-> FullCut(k, coords.arr[k][r]) + 1]))

\* C4: for every non-empty set of equal-length query coordinates with at
\* least one name that is no dimension of the target, the call fails in the
\* validation and the failure lists exactly the unmatched names.
C4_UnknownNamesFail ==
    (Returned /\ ~NoCoordinate /\ ~UnequalLengths /\ UnknownNames # {}) =>
        /\ cres.err = "AssertionError: not in da"
        /\ Range(cres.names) = UnknownNames
        /\ Len(cres.names) = Cardinality(UnknownNames)
        /\ cres.out = <<>>

\* C4 witness: a call with one dimension name and one unknown name failed
C4_Witness ==
    /\ Returned
    /\ Len(coords.keys) = 2
    /\ Cardinality(UnknownNames) = 1
    /\ ~UnequalLengths
    /\ cres.err = "AssertionError: not in da"

\* C5: every malformed input (unequal lengths, no coordinate, unknown name,
\* differing dtype kind) fails before the target is restricted or loaded.
C5_MalformedFailsBeforeLoad ==
    (Returned /\ Malformed) =>
        /\ cres.err # ""
        /\ cres.trace = <<"validate">>
        /\ ~InTrace("sel")
        /\ ~InTrace("load")

\* C5 witness: a call whose only fault is a dtype kind failed
C5_Witness ==
    /\ Returned
    /\ KindDiffers /\ ~UnequalLengths /\ UnknownNames = {}
    /\ cres.err # ""

\* the size of the target restricted to the bounding range of the queries
RestrictedSize == XdrSize(da, Sel(da, coords))

\* C6: a restriction of more than 720*1440*365*2 cells fails with a
\* ValueError carrying the target's shape and is never loaded; a restriction
\* of at most that many cells (and more than zero) is loaded.
C6_CeilingBeforeLoad ==
    Valid =>
        /\ RestrictedSize > 720 * 1440 * 365 * 2 =>
             /\ cres.err = "ValueError: too large to load"
             /\ cres.names = Shape(da)
             /\ ~InTrace("load")
        /\ (RestrictedSize > 0 /\ RestrictedSize <= 720 * 1440 * 365 * 2) =>
             /\ InTrace("load")
             /\ cres.err # "ValueError: too large to load"

\* C6 witness: a restriction above the ceiling was refused
C6_Witness ==
    /\ Valid
    /\ RestrictedSize > 720 * 1440 * 365 * 2
    /\ cres.err = "ValueError: too large to load"

\* a restriction of exactly the ceiling was loaded
C6_AtCeiling == Valid /\ RestrictedSize = 720 * 1440 * 365 * 2 /\ InTrace("load")

\* C7: a restriction of zero cells is no failure: the call returns exactly
\* L NaN values, L the common length of the query arrays.
C7_EmptyRangeAllNaN ==
    (Valid /\ RestrictedSize = 0) =>
        /\ cres.err = ""
        /\ ~InTrace("load")
        /\ Len(cres.out) = Rows
        /\ \A r \in 1..Rows : cres.out[r] = NaN

\* C7 witness: two rows outside the grid came back as two NaN
C7_Witness ==
    /\ Valid
    /\ RestrictedSize = 0
    /\ Rows = 2
    /\ cres.out = <<NaN, NaN>>

(***************************************************************************)
(* Properties of grid_flat_data (SpecGrid)                                 *)
(***************************************************************************)
Gridded == gpc = "done"
AllLengths == {Len(gcoords.col[k]) : k \in Range(gcoords.keys)}
              \cup {Len(gdata[j].vals) : j \in 1..Len(gdata)}
FlatRows == CHOOSE n \in AllLengths : TRUE
\* the coordinate tuple of row i
CoordTuple(i) == [k \in Range(gcoords.keys) |-> gcoords.col[k][i]]
CoordTuples == {CoordTuple(i) : i \in 1..FlatRows}
RowsWith(T) == {i \in 1..FlatRows : CoordTuple(i) = T}
RECURSIVE SumOver(_, _)
SumOver(S, j) == IF S = {} THEN 0
                 ELSE LET i == CHOOSE i \in S : TRUE
                      IN  gdata[j].vals[i] + SumOver(S \ {i}, j)
\* group g of the result carries the mean of every data column over the
\* rows with coordinate tuple T
HoldsMeans(g, T) ==
    \A j \in 1..Len(gdata) :
        /\ g.mean[gdata[j].name].d > 0
        /\ g.mean[gdata[j].name].n * Cardinality(RowsWith(T))
             = SumOver(RowsWith(T), j) * g.mean[gdata[j].name].d

\* C8: the rows are grouped by the tuple of their coordinate values only,
\* and the result holds, for each distinct coordinate tuple observed, the
\* mean of each data column over exactly the rows with that tuple.
C8_MeanPerCoordinateTuple ==
    (Gridded /\ Cardinality(AllLengths) = 1 /\ FlatRows > 0
             /\ gcoords.keys # <<>> /\ gdata # <<>>) =>
        /\ gres.err = ""
        /\ Cardinality(gres.out) = Cardinality(CoordTuples)
        /\ \A T \in CoordTuples : \E g \in gres.out : HoldsMeans(g, T)

\* C9: whenever the columns (coordinate or data) do not all have the same
\* length, the call fails before any grouping or aggregation.
C9_LengthMismatchFails ==
    (Gridded /\ Cardinality(AllLengths) > 1) =>
        /\ gres.err # ""
        /\ ~InSeq("groupby", gres.trace)
        /\ ~InSeq("mean", gres.trace)

\* two coordinate columns of different lengths are refused by the assertion
C9_CoordinateMismatchFails ==
    (Gridded /\ Cardinality({Len(gcoords.col[k]) : k \in Range(gcoords.keys)}) > 1) =>
        gres.trace = <<"assert">> /\ gres.err = "AssertionError: same length"

(***************************************************************************)
(* Properties of grid_flat_dataframe_to_target (SpecTarget)                *)
(***************************************************************************)
Aggregation == tpc = "done" /\ tres.err = ""
\* the cells of the target grid
TargetCells ==
    {c \in [Range(ttarget.keys) -> 1..MaxAxisLen] :
        \A k \in Range(ttarget.keys) : c[k] <= Len(ttarget.centers[k])}
\* the rows of the flat table whose coordinates fall, on every axis, in the
\* bin (edge[i], edge[i+1]] of the cell
RowsInCell(c) ==
    {i \in 1..Len(tflat.rows) : \A k \in Range(ttarget.keys) :
        LET b == MakeBinsFromGriddedCoord(ttarget.centers[k], FALSE).bins
        IN  /\ ~b.nan
            /\ b.e[c[k]] < tflat.rows[i][k] * b.den
            /\ tflat.rows[i][k] * b.den <= b.e[c[k] + 1]}
RECURSIVE SumX(_)
SumX(S) == IF S = {} THEN 0
           ELSE LET i == CHOOSE i \in S : TRUE IN tflat.rows[i].x + SumX(S \ {i})

\* C10: every row is assigned to the cell whose bins contain its
\* coordinates: for each cell the reported count is the number of rows in
\* the cell's bins and the reported mean is the mean of exactly those rows;
\* a cell that receives no row does not appear in the result; each output
\* field is named <data column>_<aggregator>.
C10_CellsHoldTheirRows ==
    (Aggregation /\ taggs = <<"mean", "std", "count">>) =>
        \A c \in TargetCells :
            IF RowsInCell(c) = {}
            THEN \A g \in tres.out : g.cell # c
            ELSE \E g \in tres.out :
                    /\ g.cell = c
                    /\ DOMAIN g.field = {"x_mean", "x_std", "x_count"}
                    /\ g.field["x_count"] = Frac(Cardinality(RowsInCell(c)), 1)
                    /\ ~g.field["x_mean"].nan
                    /\ g.field["x_mean"].n * Cardinality(RowsInCell(c))
                         = SumX(RowsInCell(c)) * g.field["x_mean"].d

\* the cells that do receive rows carry their count and mean
C10_OccupiedCells ==
    (Aggregation /\ taggs = <<"mean", "std", "count">>) =>
        \A c \in TargetCells :
            RowsInCell(c) # {} =>
                \E g \in tres.out :
                    /\ g.cell = c
                    /\ DOMAIN g.field = {"x_mean", "x_std", "x_count"}
                    /\ g.field["x_count"] = Frac(Cardinality(RowsInCell(c)), 1)
                    /\ ~g.field["x_mean"].nan
                    /\ g.field["x_mean"].n * Cardinality(RowsInCell(c))
                         = SumX(RowsInCell(c)) * g.field["x_mean"].d

(***************************************************************************)
(* Properties of the decorated transforms (SpecPipeline)                   *)
(***************************************************************************)
\* the entries of a semicolon-delimited history; an empty history has none
Entries(h) ==
    IF h = <<>> THEN <<>>
    ELSE [i \in 1..Len(Split(h)) |-> Strip(Split(h)[i])]
\* the note of the i-th transform that ran
Note(i) == Strip(Prefix(pdays[i]) \o Msg(pfuncs[i]))

\* C11: after k transforms have run successfully the history consists of
\* the entries the input's history had, unchanged and in their order,
\* followed by exactly k new entries, one per transform in the order the
\* transforms ran, also when a transform left the data alone.
C11_HistoryAppendsInOrder ==
    ppc \in {"run", "done"} =>
        Entries(pds.hist) = Entries(pin.hist) \o [i \in 1..pidx |-> Note(i)]
\* two transforms have run on a history of two different entries, the
\* first of them without changing the data
C11_Witness ==
    /\ pret = "returned"
    /\ pidx = 2
    /\ Entries(pin.hist) = << <<"a">>, <<"b">> >>
    /\ pin.cname = "longitude"
    /\ pfuncs[1] = "lon_180W_180E"

LonTransforms == {"lon_180W_180E", "lon_0E_360E"}
\* every transform of the pipeline is a longitude transform
OnlyLonTransforms == \A i \in 1..Len(pfuncs) : pfuncs[i] \in LonTransforms

\* C15: a longitude transform applied to a dataset that has no coordinate
\* or dimension of the given name does not fail and returns a dataset with
\* the input's coordinates, dimensions and data values.
C15_UnmatchedNameIsNoOp ==
    (ppc \in {"run", "done"} /\ OnlyLonTransforms /\ "lon" \notin Names(pin)) =>
        /\ pret # "raised"
        /\ pds.cname = pin.cname
        /\ pds.cval = pin.cval
        /\ pds.vals = pin.vals
        /\ pds.tmon = pin.tmon
        /\ pds.tday = pin.tday
\* both longitude transforms have run on a dataset whose coordinate is
\* named "longitude" and whose values are not in either convention's order
C15_Witness ==
    /\ pret = "returned"
    /\ pfuncs = <<"lon_0E_360E", "lon_180W_180E">>
    /\ pin.cname = "longitude"
    /\ pin.cval = <<350, -10>>

\* the transform that is next in the pipeline raises on the dataset it gets
NextRaises ==
    /\ ppc = "run"
    /\ pidx < Len(pfuncs)
    /\ Func(pfuncs[pidx + 1], pds).err # ""

\* C16: when transform number j of a pipeline raises, the exception is
\* propagated: the call ends raised, no later transform runs and no
\* dataset is returned.
C16_FailureIsFatal ==
    /\ [][NextRaises => (pret' = "raised" /\ ppc' = "done" /\ pidx' = pidx)]_vars
    /\ [][pret = "raised" => (pret' = "raised" /\ pidx' = pidx)]_vars
    /\ [](pret = "returned" => pidx = Len(pfuncs))
\* the second transform of two raised after the first had changed the data
C16_Witness ==
    /\ pret = "raised"
    /\ pidx = 1
    /\ Len(pfuncs) = 2
    /\ pds.cval # pin.cval

(***************************************************************************)
(* Properties of DataConform.__call__ (SpecCall)                           *)
(***************************************************************************)
InSeqOf(x, q) == \E i \in 1..Len(q) : q[i] = x
PositionIn(x, q) == CHOOSE i \in 1..Len(q) : q[i] = x
\* the flags the caller set to true, in the order the caller wrote them
CallerSelected ==
    SelectSeq([i \in 1..Len(kkeywords) |-> IF kkeywords[i].value
                                            THEN kkeywords[i].name ELSE ""],
              LAMBDA n : n # "")

\* C12: the transforms applied are exactly those whose flag is true, in
\* the order the caller selected them.
C12_CallerSelectsOrder ==
    kret = "returned" =>
        /\ \A f \in FlagSet : InSeqOf(f, kapplied) <=> FlagValue(f, kkeywords)
        /\ \A i, j \in 1..Len(CallerSelected) :
              i < j => PositionIn(CallerSelected[i], kapplied)
                         < PositionIn(CallerSelected[j], kapplied)

\* C12 as amended: the transforms applied are exactly those whose flag is
\* true, always in the order correct_coord_names, time_center_monthly,
\* drop_0d_coords, transpose_dims, lon_180W_180E, rename_vars_snake_case;
\* a call that raises has applied a prefix of them.
C12_FixedOrder ==
    /\ kpc \in {"run", "done"} =>
          /\ Len(kapplied) <= Len(Selected(FlagNames, kkeywords))
          /\ kapplied = SubSeq(Selected(FlagNames, kkeywords), 1, Len(kapplied))
    /\ kret = "returned" => kapplied = Selected(FlagNames, kkeywords)
\* a call that names two flags against the code's order has returned
C12_Witness ==
    /\ kret = "returned"
    /\ CallerSelected = <<"lon_180W_180E", "transpose_dims">>

(***************************************************************************)
(* Properties of the operations on a monthly time axis (SpecSeas)          *)
(***************************************************************************)
SeasFits == {"seascycl_fit_graven", "seascycl_fit_climatology"}
Failed == spc = "done" /\ sres.err # ""
UnevenYears == \E i \in 1..Len(stime.counts) : stime.counts[i] # stime.counts[1]

\* C13: every operation that requires a monthly time axis fails when the
\* time axis is not monthly: time_center_monthly raises, both fits fail
\* when the number of time steps per year is not 12 or differs between
\* years, and none of them returns a result for a non-monthly input.
C13_NonMonthlyFails ==
    spc = "done" =>
        /\ (sop \in SeasFits /\ (UnevenYears \/ stime.counts[1] # 12)) => Failed
        /\ ~stime.monthly => Failed

\* the part of C13 about the number of time steps per year
C13_StepsPerYear ==
    (spc = "done" /\ sop \in SeasFits
        /\ (UnevenYears \/ stime.counts[1] # 12)) => Failed

\* C14: both seasonal-cycle fits fail when the window length n_years is
\* even, for any monthly input; neither returns a result computed with an
\* even window.
C14_EvenWindowFails ==
    (spc = "done" /\ sop \in SeasFits /\ stime.monthly /\ snyears % 2 = 0)
        => Failed

\* the part of C14 about seascycl_fit_graven
C14_GravenEvenWindowFails ==
    (spc = "done" /\ sop = "seascycl_fit_graven" /\ snyears % 2 = 0) => Failed

(***************************************************************************)
(* Properties of the longitude transforms (SpecLon)                        *)
(***************************************************************************)
Flips == Len(lfs)
\* the longitudes after i transforms
LonAfter(i) == ltrace[i + 1].cval
Ascending(l) == \A i \in 1..Len(l) - 1 : l[i] <= l[i + 1]
Within(l, lo, hi) == \A i \in 1..Len(l) : lo <= l[i] /\ l[i] < hi

\* C17: lon_180W_180E maps every longitude into [-180, 180) and
\* lon_0E_360E into [0, 360), each returning the axis sorted ascending;
\* each is idempotent, and one applied after the other gives the same
\* longitudes as the later one applied alone.
C17_LongitudeFlips ==
    \A n \in 1..Flips :
        /\ Ascending(LonAfter(n))
        /\ lfs[n] = "lon_180W_180E" => Within(LonAfter(n), -180, 180)
        /\ lfs[n] = "lon_0E_360E" => Within(LonAfter(n), 0, 360)
        /\ (n > 1 /\ lfs[n - 1] = lfs[n]) =>
              /\ LonAfter(n) = LonAfter(n - 1)
              /\ ltrace[n + 1].vals = ltrace[n].vals
        /\ (n > 1 /\ lfs[n - 1] # lfs[n]) =>
              LonAfter(n) = Func(lfs[n], ltrace[n - 1]).ds.cval
\* lon_0E_360E has run after lon_180W_180E on longitudes that lie outside
\* both conventions and are not in ascending order
C17_Witness ==
    /\ lfs = <<"lon_180W_180E", "lon_0E_360E">>
    /\ ltrace[1].cval = <<540, -181>>
    /\ LonAfter(2) = <<179, 180>>

(***************************************************************************)
(* Properties of configured transforms (SpecConfigure)                     *)
(***************************************************************************)
\* C18: the function a decorated transform returns for a set of keyword
\* arguments applies those same keyword arguments whenever it is run;
\* configuring the transform again never changes what it does.
C18_ConfiguredKwargsStick ==
    frun.handle # 0 =>
        LET own == Lon180W180E(frun.ds, LonNameOf(fhandles[frun.handle])).ds
        IN  /\ frun.out.cval = own.cval
            /\ frun.out.vals = own.vals

\* the function obtained last does apply its own keyword arguments
C18_LastConfigured ==
    frun.handle = Len(fhandles) /\ frun.handle # 0 =>
        LET own == Lon180W180E(frun.ds, LonNameOf(fhandles[frun.handle])).ds
        IN  /\ frun.out.cval = own.cval
            /\ frun.out.vals = own.vals

(***************************************************************************)
(* Independence of the rows of one colocate_dataarray call (SpecColocate)  *)
(***************************************************************************)
\* C19: the value returned for a query row depends only on that row's
\* coordinates and on the target: a row lying inside the bin of some cell
\* of the full target grid gets that cell's value, whatever other rows
\* are passed in the same call, and is never turned into NaN by them.
C19_RowsAreIndependent ==
    (Valid /\ AllQueried) =>
        \A r \in 1..Rows :
            ~RowOutside(r) =>
                /\ cres.err = ""
                /\ Len(cres.out) = Rows
                /\ cres.out[r] = Num(CellValue(da,
                      [k \in Range(da.dims) |-> FullCut(k, coords.arr[k][r]) + 1]))

====
